---- MODULE Spec2Model ----
(***************************************************************************)
(* buddymon: the polling loop of src/buddymon.go (main, processBuddyInfo,  *)
(* updateInflux, makeBuddyEntry, slurpLines).                              *)
(*                                                                         *)
(* Go strings are byte sequences; they are modelled as sequences of byte   *)
(* values 0..255.  Go maps are modelled as functions whose domain is the   *)
(* key set.  influxConfig.GlobalTags is a Go map, i.e. a reference: the    *)
(* variable GlobalTags is the one map object that every                    *)
(* "tags := influx.GlobalTags" aliases.                                    *)
(***************************************************************************)
EXTENDS Integers, Sequences, FiniteSets, TLC

\* ---------------------------------------------------------------- bounds
\* Largest number of lines in the source file.
MaxLines == 2
\* time.Now() returns a value in 0..MaxClock (nanoseconds).
MaxClock == 1

\* -------------------------------------------------------- program constants
assertFieldCount == 15

\* ------------------------------------------------------------ Go maps
EmptyMap == [x \in {} |-> <<>>]

\* m[key] = val
MapSet(m, key, val) ==
    [x \in (DOMAIN m) \cup {key} |-> IF x = key THEN val ELSE m[x]]

\* ------------------------------------------------------------ strings
\* The ASCII white space of strings.Fields: \t \n \v \f \r and space.
asciiSpace == {9, 10, 11, 12, 13, 32}

\* The least element of a non-empty set of integers.
MinOf(S) == CHOOSE i \in S : \A j \in S : i <= j

\* strings.Fields(s): the maximal runs of non-space bytes of s, in order.
\* (The inputs of this model hold no non-ASCII white space.)
RECURSIVE Fields(_)
Fields(s) ==
    LET nonSpace == {i \in 1..Len(s) : s[i] \notin asciiSpace}
    IN  IF nonSpace = {}
        THEN <<>>
        ELSE LET first == MinOf(nonSpace)
                 stop  == MinOf({i \in first..Len(s) : s[i] \in asciiSpace}
                                \cup {Len(s) + 1})
             IN  <<SubSeq(s, first, stop - 1)>>
                 \o Fields(SubSeq(s, stop, Len(s)))

\* bufio.ScanLines strips one trailing \r of a line.
dropCR(s) ==
    IF Len(s) > 0 /\ s[Len(s)] = 13 THEN SubSeq(s, 1, Len(s) - 1) ELSE s

\* bufio.Scanner with the default split function over the whole file: one
\* token per \n-terminated line, plus a last unterminated non-empty line.
RECURSIVE ScanLines(_)
ScanLines(data) ==
    LET newlines == {i \in 1..Len(data) : data[i] = 10}
    IN  IF data = <<>>
        THEN <<>>
        ELSE IF newlines = {}
             THEN <<dropCR(data)>>
             ELSE LET j == MinOf(newlines)
                  IN  <<dropCR(SubSeq(data, 1, j - 1))>>
                      \o ScanLines(SubSeq(data, j + 1, Len(data)))

\* The decimal digits of n >= 0 (the %d verb).
RECURSIVE Itoa(_)
Itoa(n) == IF n < 10 THEN <<48 + n>> ELSE Append(Itoa(n \div 10), 48 + (n % 10))

\* fmt.Sprintf("%dp", pageOrder)
Sprintf_dp(pageOrder) == Append(Itoa(pageOrder), 112)

\* string(b) for a byte b: the UTF-8 encoding of the code point b.
ByteToString(b) ==
    IF b < 128 THEN <<b>> ELSE <<192 + (b \div 64), 128 + (b % 64)>>

\* -------------------------------------------------------- makeBuddyEntry
\* The loop "for _, p := range pages" with pageOrder doubling: pages[i] is
\* stored under Sprintf("%dp", pageOrder).
RECURSIVE PagesLoop(_, _, _, _)
PagesLoop(pages, i, pageOrder, m) ==
    IF i > Len(pages)
    THEN m
    ELSE PagesLoop(pages, i + 1, pageOrder * 2,
                   MapSet(m, Sprintf_dp(pageOrder), pages[i]))

\* The zero error value (nil).
NoErr == [kind |-> "nil"]

\* fmt.Errorf("found %d fields in %s (expected %d) in %v", n, ..., line)
FieldCountErr(n, line) ==
    [kind |-> "fieldcount", n |-> n, expected |-> assertFieldCount,
     line |-> line]

\* The zero BuddyEntry returned with an error.
ZeroEntry == [Node |-> <<>>, Zone |-> <<>>, Pages |-> EmptyMap]

\* The node tag of a token: fields[1][0] is a byte, string(node) converts it.
NodeOf(tok) == ByteToString(tok[1])

\* makeBuddyEntry with the field count checked by "n < assertFieldCount".
makeBuddyEntry_TooFewOnly(line) ==
    LET fields == Fields(line)
        n      == Len(fields)
    IN  IF n < assertFieldCount
        THEN [ok |-> FALSE, entry |-> ZeroEntry, err |-> FieldCountErr(n, line)]
        ELSE [ok |-> TRUE,
              entry |-> [Node  |-> NodeOf(fields[2]),
                         Zone  |-> fields[4],
                         Pages |-> PagesLoop(SubSeq(fields, 5, n), 1, 1, EmptyMap)],
              err |-> NoErr]

makeBuddyEntry(line) ==
    LET fields == Fields(line)
        n      == Len(fields)
    IN  IF n # assertFieldCount
        THEN [ok |-> FALSE, entry |-> ZeroEntry, err |-> FieldCountErr(n, line)]
        ELSE [ok |-> TRUE,
              entry |-> [Node  |-> NodeOf(fields[2]),
                         Zone  |-> fields[4],
                         Pages |-> PagesLoop(SubSeq(fields, 5, n), 1, 1, EmptyMap)],
              err |-> NoErr]

\* ------------------------------------------------------------ updateInflux
\* Tag keys "node", "zone" and "host".
KeyNode == <<110, 111, 100, 101>>
KeyZone == <<122, 111, 110, 101>>
KeyHost == <<104, 111, 115, 116>>

\* SetTags with a global tag named node or zone kept.
SetTags_KeepStatic(tags, entry) ==
    LET withNode == IF KeyNode \in DOMAIN tags THEN tags
                    ELSE MapSet(tags, KeyNode, entry.Node)
    IN  IF KeyZone \in DOMAIN withNode THEN withNode
        ELSE MapSet(withNode, KeyZone, entry.Zone)

\* tags := influx.GlobalTags; tags["node"] = entry.Node;
\* tags["zone"] = entry.Zone.  tags is the map GlobalTags itself: the
\* result is the new content of that one map.
SetTags(tags, entry) ==
    MapSet(MapSet(tags, KeyNode, entry.Node), KeyZone, entry.Zone)

\* client.NewPoint(measurement, tags, fields, t): the point holds its own
\* encoding of the tags as they are at the call.
NewPoint(tags, fields, t) == [tags |-> tags, fields |-> fields, time |-> t]

\* AddPointTo with the point put in front.
AddPointTo_Front(bp, pt) == <<pt>> \o bp

\* bp.AddPoint(pt)
AddPointTo(bp, pt) == Append(bp, pt)

\* AddNanosecond with the increment left out.
AddNanosecond_None(t) == t

\* t.Add(time.Nanosecond)
AddNanosecond(t) == t + 1

\* The error of a failed client construction, point construction or write.
TransportErr(what) == [kind |-> "transport", what |-> what]

\* The error of a failed ioutil.ReadFile.
ReadErr == [kind |-> "read"]

\* ------------------------------------------------------------ inputs
\* The tokens of the buddyinfo format.
TokNode == <<78, 111, 100, 101>>              \* Node
TokZone == <<122, 111, 110, 101>>             \* zone
TokDMA == <<68, 77, 65>>                     \* DMA
TokNormal == <<78, 111, 114, 109, 97, 108>>     \* Normal
Tok0 == <<48, 44>>                         \* 0,
Tok1 == <<49, 44>>                         \* 1,
Tok10 == <<49, 48, 44>>                     \* 10,
TokNonAscii == <<195, 169, 44>>                 \* e-acute (UTF-8 C3 A9) and ,

\* Two rows of eleven fragment counts.
CountsA == << <<49>>, <<49>>, <<49>>, <<48>>, <<50>>, <<49>>, <<49>>, <<48>>,
              <<49>>, <<49>>, <<51>> >>
CountsB == << <<50, 51, 56, 50, 49>>, <<53, 55, 49, 53>>, <<57, 48>>,
              <<49, 54>>, <<56>>, <<52>>, <<57>>, <<50>>, <<48>>, <<48>>,
              <<48>> >>

RECURSIVE Join(_, _)
Join(toks, sep) ==
    IF Len(toks) = 0 THEN <<>>
    ELSE IF Len(toks) = 1 THEN toks[1]
         ELSE toks[1] \o sep \o Join(Tail(toks), sep)

Row(node, zone, counts) == <<TokNode, node, TokZone, zone>> \o counts

LineDMA0 == Join(Row(Tok0, TokDMA, CountsA), <<32, 32, 32>>)
LineNormal0 == <<32>> \o Join(Row(Tok0, TokNormal, CountsB), <<9>>) \o <<32>>
LineNormal1 == Join(Row(Tok1, TokNormal, CountsA), <<32>>)
LineNormal10 == Join(Row(Tok10, TokNormal, CountsA), <<32>>)
LineNonAscii == Join(Row(TokNonAscii, TokDMA, CountsA), <<32>>)
Line14 == Join(SubSeq(Row(Tok1, TokDMA, CountsA), 1, 14), <<32>>)
Line16 == Join(Row(Tok1, TokDMA, CountsA) \o << <<55>> >>, <<32>>)
LineBlank == <<>>

\* The lines a source file is made of.
LineSet == {LineDMA0, LineNormal0, LineNormal1, LineNormal10, LineNonAscii,
            Line14, Line16, LineBlank}

\* All sequences over S of length at most n.
SeqsUpTo(S, n) == UNION {[1..m -> S] : m \in 0..n}

\* The content of a file: its lines joined by a terminator, with or without
\* a terminator after the last line.
FileOf(ls, term, last) ==
    Join(ls, term) \o (IF last /\ Len(ls) > 0 THEN term ELSE <<>>)

\* The contents the source file can have when it is read.
Files ==
    {FileOf(ls, e[1], e[2]) :
        ls \in SeqsUpTo(LineSet, MaxLines),
        e \in {<<(<<10>>), TRUE>>, <<(<<10>>), FALSE>>, <<(<<13, 10>>), TRUE>>}}

\* The global tag sets of the settings at startup (getConfig): none, only
\* host, and host with user tags named node and zone.
TagSets ==
    {EmptyMap,
     MapSet(EmptyMap, KeyHost, <<104>>),
     MapSet(MapSet(MapSet(EmptyMap, KeyHost, <<104>>), KeyNode, <<57>>),
            KeyZone, <<99, 102, 103>>)}

\* The values time.Now() can return.
Clock == 0..MaxClock

\* ------------------------------------------------------------ state
VARIABLES
    pc,          \* where main is: "read", "parse", "setup", "point",
                 \* "write", "report", "sleep", "exited"
    lines,       \* processBuddyInfo: lines
    idx,         \* processBuddyInfo: lines handed to makeBuddyEntry so far
    batch,       \* processBuddyInfo: batch
    GlobalTags,  \* influxConfig.GlobalTags, the shared map
    startTags,   \* the content of GlobalTags when init() returned
    t,           \* updateInflux: t
    t0,          \* updateInflux: the value time.Now() returned
    bp,          \* updateInflux: the points added to bp
    k,           \* updateInflux: entries of batch handled so far
    err,         \* the error of the current cycle
    reported,    \* the error main printed in the current cycle
    writes,      \* calls of c.Write in the current cycle
    written,     \* the points of the last c.Write call of the current cycle
    inflight     \* calls of c.Write that have not returned

vars == <<pc, lines, idx, batch, GlobalTags, startTags, t, t0, bp, k, err,
          reported, writes, written, inflight>>

Init ==
    /\ pc = "read"
    /\ lines = <<>>
    /\ idx = 0
    /\ batch = <<>>
    /\ startTags \in TagSets
    /\ GlobalTags = startTags
    /\ t = 0
    /\ t0 = 0
    /\ bp = <<>>
    /\ k = 0
    /\ err = NoErr
    /\ reported = NoErr
    /\ writes = 0
    /\ written = <<>>
    /\ inflight = 0

\* Where main goes when slurpLines fails: log.Fatal(err) ends the process.
AfterReadError == "exited"

\* AfterReport with the error fatal to the process.
AfterReport_Exit == "exited"

\* AfterReport with the sleep skipped.
AfterReport_NoSleep == "read"

\* Where main goes after processBuddyInfo returned: time.Sleep.
AfterReport == "sleep"

\* Where main goes after time.Sleep: the next iteration of the for loop.
AfterSleep == "read"

\* processBuddyInfo: slurpLines(buddyPath) succeeds; var batch []BuddyEntry.
ReadFile ==
    /\ pc = "read"
    /\ \E data \in Files : lines' = ScanLines(data)
    /\ pc' = "parse"
    /\ idx' = 0
    /\ batch' = <<>>
    /\ UNCHANGED <<GlobalTags, startTags, t, t0, bp, k, err, reported,
                   writes, written, inflight>>

\* processBuddyInfo: slurpLines(buddyPath) fails.
ReadFileError ==
    /\ pc = "read"
    /\ pc' = AfterReadError
    /\ err' = ReadErr
    /\ UNCHANGED <<lines, idx, batch, GlobalTags, startTags, t, t0, bp, k,
                   reported, writes, written, inflight>>

\* processBuddyInfo: one iteration of "for _, line := range lines".
ParseLine ==
    /\ pc = "parse"
    /\ idx < Len(lines)
    /\ LET r == makeBuddyEntry(lines[idx + 1])
       IN  /\ idx' = idx + 1
           /\ IF r.ok
              THEN /\ batch' = Append(batch, r.entry)
                   /\ pc' = "parse"
                   /\ err' = err
              ELSE /\ batch' = batch
                   /\ pc' = "report"
                   /\ err' = r.err
    /\ UNCHANGED <<lines, GlobalTags, startTags, t, t0, bp, k, reported,
                   writes, written, inflight>>

\* processBuddyInfo: the loop is over, updateInflux is called.
CallUpdateInflux ==
    /\ pc = "parse"
    /\ idx = Len(lines)
    /\ pc' = "setup"
    /\ UNCHANGED <<lines, idx, batch, GlobalTags, startTags, t, t0, bp, k,
                   err, reported, writes, written, inflight>>

\* updateInflux: NewHTTPClient and NewBatchPoints succeed, t := time.Now().
Setup ==
    /\ pc = "setup"
    /\ \E now \in Clock : t' = now /\ t0' = now
    /\ bp' = <<>>
    /\ k' = 0
    /\ pc' = "point"
    /\ UNCHANGED <<lines, idx, batch, GlobalTags, startTags, err, reported,
                   writes, written, inflight>>

\* updateInflux: NewHTTPClient or NewBatchPoints fails, return err.
SetupError ==
    /\ pc = "setup"
    /\ err' = TransportErr("client")
    /\ pc' = "report"
    /\ UNCHANGED <<lines, idx, batch, GlobalTags, startTags, t, t0, bp, k,
                   reported, writes, written, inflight>>

\* updateInflux: one iteration of "for _, entry := range batch", NewPoint
\* succeeds.
AddPoint ==
    /\ pc = "point"
    /\ k < Len(batch)
    /\ LET entry == batch[k + 1]
           tags  == SetTags(GlobalTags, entry)
       IN  /\ GlobalTags' = tags
           /\ bp' = AddPointTo(bp, NewPoint(tags, entry.Pages, t))
    /\ t' = AddNanosecond(t)
    /\ k' = k + 1
    /\ UNCHANGED <<pc, lines, idx, batch, startTags, t0, err, reported,
                   writes, written, inflight>>

\* updateInflux: one iteration of the loop, NewPoint fails, return err.
AddPointError ==
    /\ pc = "point"
    /\ k < Len(batch)
    /\ GlobalTags' = SetTags(GlobalTags, batch[k + 1])
    /\ err' = TransportErr("point")
    /\ pc' = "report"
    /\ UNCHANGED <<lines, idx, batch, startTags, t, t0, bp, k, reported,
                   writes, written, inflight>>

\* updateInflux: c.Write(bp) is called.
WriteCall ==
    /\ pc = "point"
    /\ k = Len(batch)
    /\ pc' = "write"
    /\ writes' = writes + 1
    /\ written' = bp
    /\ inflight' = inflight + 1
    /\ UNCHANGED <<lines, idx, batch, GlobalTags, startTags, t, t0, bp, k,
                   err, reported>>

\* updateInflux: c.Write(bp) returns nil or an error.
WriteReturn ==
    /\ pc = "write"
    /\ \E ok \in BOOLEAN : err' = IF ok THEN NoErr ELSE TransportErr("write")
    /\ inflight' = inflight - 1
    /\ pc' = "report"
    /\ UNCHANGED <<lines, idx, batch, GlobalTags, startTags, t, t0, bp, k,
                   reported, writes, written>>

\* main: if err != nil { fmt.Println("ERROR:", err) }
Report ==
    /\ pc = "report"
    /\ reported' = err
    /\ pc' = AfterReport
    /\ UNCHANGED <<lines, idx, batch, GlobalTags, startTags, t, t0, bp, k,
                   err, writes, written, inflight>>

\* main: time.Sleep(influxConfig.Interval) returns.  The cycle is over: the
\* locals of processBuddyInfo and updateInflux are gone, and the record of
\* the cycle (err, reported, writes, written) starts again.
Sleep ==
    /\ pc = "sleep"
    /\ pc' = AfterSleep
    /\ lines' = <<>>
    /\ idx' = 0
    /\ batch' = <<>>
    /\ t' = 0
    /\ t0' = 0
    /\ bp' = <<>>
    /\ k' = 0
    /\ err' = NoErr
    /\ reported' = NoErr
    /\ writes' = 0
    /\ written' = <<>>
    /\ UNCHANGED <<GlobalTags, startTags, inflight>>

Next ==
    \/ ReadFile
    \/ ReadFileError
    \/ ParseLine
    \/ CallUpdateInflux
    \/ Setup
    \/ SetupError
    \/ AddPoint
    \/ AddPointError
    \/ WriteCall
    \/ WriteReturn
    \/ Report
    \/ Sleep

Spec == Init /\ [][Next]_vars

\* Once processBuddyInfo has returned, main goes on to print the error, and
\* time.Sleep returns after the interval.  (Nothing is assumed about the
\* progress of the file read, the client or the write.)
FairSpec == Spec /\ WF_vars(Report) /\ WF_vars(Sleep)

TypeOK ==
    /\ pc \in {"read", "parse", "setup", "point", "write", "report", "sleep",
               "exited"}
    /\ idx \in 0..Len(lines)
    /\ k \in 0..Len(batch)
    /\ writes \in 0..1
    /\ inflight \in 0..1

\* ------------------------------------------------------------ properties
\* The lines of the current cycle that do not split into 15 tokens.
BadLines == {j \in 1..Len(lines) : Len(Fields(lines[j])) # 15}

AllLinesParse == BadLines = {}

\* C1: in a cycle whose file has a line that does not split into 15 tokens
\* (a blank line included), the first such line makes makeBuddyEntry return
\* the field-count error, processBuddyInfo returns that error without
\* handing a later line to makeBuddyEntry, updateInflux is not entered and
\* c.Write is not called: no partial batch is sent.
C1_MalformedLineAbortsCycle ==
    BadLines # {} =>
        LET first == MinOf(BadLines)
        IN  /\ pc \notin {"setup", "point", "write"}
            /\ writes = 0
            /\ inflight = 0
            /\ bp = <<>>
            /\ idx <= first
            /\ pc \in {"report", "sleep"} =>
                  /\ idx = first
                  /\ Len(batch) = first - 1
                  /\ err = [kind |-> "fieldcount",
                            n |-> Len(Fields(lines[first])),
                            expected |-> 15,
                            line |-> lines[first]]

\* C1 witness: a cycle was aborted at a blank line that is not the last line
\* of the file, and the error was printed.
C1_Witness ==
    /\ pc = "sleep"
    /\ BadLines # {}
    /\ MinOf(BadLines) < Len(lines)
    /\ lines[MinOf(BadLines)] = <<>>
    /\ reported.kind = "fieldcount"

\* The first character of a UTF-8 string, as bytes.
FirstChar(s) ==
    LET width == IF s[1] \in 192..223 THEN 2
                 ELSE IF s[1] \in 224..239 THEN 3
                 ELSE IF s[1] \in 240..247 THEN 4
                 ELSE 1
    IN  SubSeq(s, 1, IF width <= Len(s) THEN width ELSE Len(s))

\* The field names 1p, 2p, 4p, ..., 1024p in order.
PageKeys ==
    << <<49, 112>>, <<50, 112>>, <<52, 112>>, <<56, 112>>, <<49, 54, 112>>,
       <<51, 50, 112>>, <<54, 52, 112>>, <<49, 50, 56, 112>>,
       <<50, 53, 54, 112>>, <<53, 49, 50, 112>>, <<49, 48, 50, 52, 112>> >>

\* The record of line has the zone and the eleven page fields of the line.
ZoneAndPagesOf(entry, line) ==
    LET tok == Fields(line)
    IN  /\ entry.Zone = tok[4]
        /\ DOMAIN entry.Pages = {PageKeys[i] : i \in 1..11}
        /\ Cardinality(DOMAIN entry.Pages) = 11
        /\ \A i \in 0..10 : entry.Pages[PageKeys[i + 1]] = tok[5 + i]

\* C2: every line of 15 tokens handed to makeBuddyEntry yields a record
\* whose Node is the first character of token[1], whose Zone is token[3]
\* and whose Pages has exactly the keys 1p .. 1024p, key 2^i p holding
\* token[4+i].
C2_RecordOfLine ==
    \A j \in 1..idx :
        Len(Fields(lines[j])) = 15 =>
            /\ j <= Len(batch)
            /\ batch[j].Node = FirstChar(Fields(lines[j])[2])
            /\ ZoneAndPagesOf(batch[j], lines[j])

\* C3: point i (from 0) of the batch under assembly and of the batch handed
\* to c.Write has the timestamp t0 + i, so timestamps grow by one nanosecond
\* per point and no two points share a timestamp or a (tags, timestamp)
\* pair.
C3_TimestampsIncreaseByOne ==
    \A b \in {bp, written} :
        /\ \A i \in 1..Len(b) : b[i].time = t0 + (i - 1)
        /\ \A i \in 1..Len(b) : \A j \in 1..Len(b) :
              i < j => /\ b[i].time < b[j].time
                       /\ <<b[i].tags, b[i].time>> # <<b[j].tags, b[j].time>>

\* C3 witness: a batch of two points with a base time other than zero was
\* handed to c.Write.
C3_Witness == pc = "write" /\ Len(written) = 2 /\ t0 > 0

\* C4: a failed read of the source file does not end the process: the
\* error goes to main, which reports it and sleeps.
C4_ReadErrorNotFatal == err = ReadErr => pc \in {"report", "sleep"}

\* C6: the tags of every point are the startup global tags with node and
\* zone set from the point's record: a global tag named node or zone is
\* overwritten, every other global tag is in the point unchanged.
C6_TagsAreStaticOverridden ==
    \A j \in 1..Len(bp) :
        LET tags == bp[j].tags
        IN  /\ DOMAIN tags = (DOMAIN startTags) \cup {KeyNode, KeyZone}
            /\ tags[KeyNode] = batch[j].Node
            /\ tags[KeyZone] = batch[j].Zone
            /\ \A key \in (DOMAIN startTags) \ {KeyNode, KeyZone} :
                  tags[key] = startTags[key]

\* C6 witness: two points of one batch whose records differ in node and in
\* zone, built from global tags that name node, zone and host.
C6_Witness ==
    /\ Len(bp) = 2
    /\ {KeyNode, KeyZone, KeyHost} \subseteq DOMAIN startTags
    /\ batch[1].Node # batch[2].Node
    /\ batch[1].Zone # batch[2].Zone
    /\ startTags[KeyNode] # batch[1].Node

\* The point p is the encoding of line at position i (from 0) of the batch.
PointOfLine(p, line, i) ==
    LET entry == makeBuddyEntry(line).entry
    IN  /\ p.fields = entry.Pages
        /\ p.tags[KeyNode] = entry.Node
        /\ p.tags[KeyZone] = entry.Zone
        /\ p.time = t0 + i

\* The cycle ended before c.Write because the client, the batch or a point
\* could not be constructed.
ConstructionFailed ==
    err.kind = "transport" /\ err.what \in {"client", "point"}

\* C7 as stated: when every line parses, c.Write is called exactly once in
\* the cycle, with one point per line in line order.
C7_WriteOncePerParsedFile ==
    (pc \in {"report", "sleep"} /\ AllLinesParse) =>
        /\ writes = 1
        /\ Len(written) = Len(lines)
        /\ \A i \in 1..Len(lines) : PointOfLine(written[i], lines[i], i - 1)

\* C7 amended: c.Write is called at most once in a cycle; when it is called
\* every line has parsed and the batch has one point per line in line
\* order; and when every line parses the call happens exactly once unless
\* the construction of the client, the batch or a point failed, in which
\* case it does not happen.
C7_WriteOnceUnlessConstructionFails ==
    /\ writes <= 1
    /\ writes = 1 =>
          /\ AllLinesParse
          /\ Len(written) = Len(lines)
          /\ \A i \in 1..Len(lines) : PointOfLine(written[i], lines[i], i - 1)
    /\ (pc \in {"report", "sleep"} /\ AllLinesParse) =>
          writes = (IF ConstructionFailed THEN 0 ELSE 1)

\* C7 witness: a batch of two points from two different lines was written.
C7_Witness ==
    /\ pc = "report"
    /\ writes = 1
    /\ Len(written) = 2
    /\ lines[1] # lines[2]

\* C8: assembling a batch leaves influxConfig.GlobalTags as it was at
\* startup.
C8_GlobalTagsUnchanged == GlobalTags = startTags

\* The node id a line names: token[1] without its trailing comma.
NodeIdOf(line) ==
    LET tok == Fields(line)[2]
    IN  IF tok[Len(tok)] = 44 THEN SubSeq(tok, 1, Len(tok) - 1) ELSE tok

\* C9: when the lines of the file name pairwise distinct (node id, zone)
\* pairs, the points of the batch carry pairwise distinct (node, zone) tags.
C9_DistinctNodeZoneTags ==
    (writes = 1 /\ AllLinesParse /\ Len(written) = Len(lines)) =>
        \A i \in 1..Len(lines) : \A j \in 1..Len(lines) :
            (i < j /\ <<NodeIdOf(lines[i]), Fields(lines[i])[4]>>
                       # <<NodeIdOf(lines[j]), Fields(lines[j])[4]>>)
            => <<written[i].tags[KeyNode], written[i].tags[KeyZone]>>
                   # <<written[j].tags[KeyNode], written[j].tags[KeyZone]>>

\* C5: a cycle that failed with a validation error or a transport error
\* has its error printed by main, which then sleeps; the batch is dropped
\* (the next cycle starts with no batch, no points and no write pending);
\* and from every such failure a next cycle eventually begins.
C5_FailedCycleIsFollowedByNext ==
    /\ [][(pc = "report" /\ pc' # "report")
            => (pc' = "sleep" /\ reported' = err)]_vars
    /\ [][(pc' = "read" /\ pc # "read")
            => (batch' = <<>> /\ bp' = <<>> /\ written' = <<>>
                /\ writes' = 0 /\ inflight' = 0)]_vars
    /\ (pc = "report" /\ err.kind \in {"fieldcount", "transport"})
          ~> (pc = "read")

\* C5 witness: main has printed the error of a failed write and sleeps.
C5_Witness ==
    /\ pc = "sleep"
    /\ reported = TransportErr("write")
    /\ Len(written) > 0

\* C10: the steps of a cycle happen in the order read, parse, assemble,
\* write; a read starts only from the sleep that follows a finished or
\* aborted cycle, with no write pending; at most one batch is in flight.
C10_CyclesDoNotOverlap ==
    /\ [][/\ pc' = "read"  => (pc = "sleep" /\ inflight = 0)
          /\ pc' = "parse" => pc \in {"read", "parse"}
          /\ pc' = "setup" => (pc = "parse" /\ idx = Len(lines))
          /\ pc' = "point" => pc \in {"setup", "point"}
          /\ pc' = "write" => (pc = "point" /\ k = Len(batch))
          /\ pc' = "report" => pc \in {"parse", "setup", "point", "write"}
          /\ pc' = "sleep" => pc = "report"]_vars
    /\ [](inflight <= 1)
    /\ [](inflight = 1 <=> pc = "write")

\* C10 witness: a cycle is being parsed after an earlier cycle reached the
\* assembly of its batch (which left node in the global tags).
C10_Witness ==
    /\ pc = "parse"
    /\ idx = Len(lines)
    /\ Len(lines) > 0
    /\ KeyNode \in DOMAIN GlobalTags
    /\ KeyNode \notin DOMAIN startTags

====
